---- MODULE Spec2Model ----
(***************************************************************************)
(* FGWeather web application: the query layer of the pages (Index, weather *)
(* map, air quality), the data clients, the condition classifier, the      *)
(* temporal selector and the overlay generator of the weather map.         *)
(***************************************************************************)
EXTENDS Integers, Sequences, FiniteSets, TLC

None == "none"

(***************************************************************************)
(* Bounds of the model.                                                    *)
(***************************************************************************)
\* Fetches (calls of a queryFn by the query client, retries not counted) that
\* are started in one run.
MaxFetches == 4

(***************************************************************************)
(* Pages and their queries.                                                *)
(*   index        the Index page with persisted coordinates               *)
(*   indexLegacy  the Index page without persistence                      *)
(*   map          the WeatherMap component inside the map page             *)
(*   airQuality   the air-quality page                                     *)
(***************************************************************************)
Pages == {"index", "indexLegacy", "map", "airQuality"}

IndexPages == {"index", "indexLegacy"}

\* A location stands for one (latitude, longitude) pair.
Locs == {"KualaLumpur", "Detected"}

Units == {"celsius", "fahrenheit"}

MapTypes == {"temp", "precipitation", "clouds", "wind"}

\* The map types the query layer is exercised with.
QueryMapTypes == {"temp", "precipitation"}

\* queryClient default options.
DefaultRetry == 1

\* retry: 2 of the Index page and of the air-quality page.
IndexRetry == 2

AirQualityRetry == 2

VARIABLES
  page,         \* the page that is mounted
  coordinates,  \* selected location (None: not selected yet)
  unit,         \* selected unit
  mapType,      \* selected map type (map page)
  queries,      \* the query cache: key -> query state
  net,          \* network calls in flight per key: live (awaited) and cancelled;
                \* with the live call, whether it was issued while the cache held
                \* a fresh result for its location
  lastSettled,  \* history: was the last successful response for the selected key
  fetches       \* number of fetches started so far

queryVars == <<page, coordinates, unit, mapType, queries, net, lastSettled, fetches>>

(***************************************************************************)
(* Query keys.                                                             *)
(***************************************************************************)
Key(l, u, m) == [loc |-> l, unit |-> u, mapType |-> m]

\* queryKey of the page's useQuery for a selection.
QueryKey(p, l, u, m) ==
  CASE p \in IndexPages -> Key(l, u, None)
    [] p = "map" -> Key(l, None, m)
    [] OTHER -> Key(l, None, None)

Keys(p) ==
  CASE p \in IndexPages -> {Key(l, u, None) : l \in Locs, u \in Units}
    [] p = "map" -> {Key(l, None, m) : l \in Locs, m \in QueryMapTypes}
    [] OTHER -> {Key(l, None, None) : l \in Locs}

CurKey == QueryKey(page, coordinates, unit, mapType)

\* enabled: !!coordinates (Index); the other queries are always enabled.
Enabled(p, l) == l # None

Retry(p) ==
  CASE p = "index" -> IndexRetry
    [] p = "airQuality" -> AirQualityRetry
    [] OTHER -> DefaultRetry

\* What the server is asked for: the weather request carries temperature_unit,
\* the map request and the air-quality request carry no unit.
RequestUnit(p, k) == IF p \in IndexPages THEN k.unit ELSE "celsius"

\* The data a successful call for key k delivers.
ResponseData(p, k) == [loc |-> k.loc, unit |-> RequestUnit(p, k)]

\* No data (undefined).
NoData == [loc |-> None, unit |-> None]

(***************************************************************************)
(* Query state.                                                            *)
(***************************************************************************)
IdleQuery ==
  [status |-> "pending", data |-> NoData, fetching |-> FALSE, stale |-> FALSE,
   failureCount |-> 0]

NoCalls == [live |-> 0, dead |-> 0, issued |-> "never"]

\* stale: staleTime (15 or 30 minutes, by page) has passed since the fetch.
IsStale(q) == q.data = NoData \/ q.stale

\* Start of a fetch: the failure count is reset; without data the query turns pending.
FetchState(q) ==
  [q EXCEPT !.fetching = TRUE, !.failureCount = 0,
            !.status = IF q.data = NoData THEN "pending" ELSE q.status]

\* The cache entry a response for key k is written to.
SettleKeyCurrent(k) == CurKey

SettleKey(k) == k

\* A network call issued for key k: does the cache hold a result for the same
\* location that was fetched within the stale window.
Issued(k, qs) ==
  IF \E x \in DOMAIN qs : x.loc = k.loc /\ qs[x].data # NoData /\ ~qs[x].stale
    THEN "fresh" ELSE "nofresh"

\* An observer turns to key k (mount, or a change of the key): a fetch in
\* flight is joined, a missing or stale result is fetched, a fresh one is used.
JoinInFlight(q) == q.fetching

Observe(p, k, qs, nt) ==
  LET q == qs[k] IN
  IF JoinInFlight(q)
    THEN [queries |-> qs, net |-> nt, called |-> FALSE]
  ELSE IF IsStale(q)
    THEN [queries |-> [qs EXCEPT ![k] = FetchState(q)],
          net |-> [nt EXCEPT ![k].live = nt[k].live + 1, ![k].issued = Issued(k, qs)],
          called |-> TRUE]
  ELSE [queries |-> qs, net |-> nt, called |-> FALSE]

\* retry: after a failure the fetch is tried again while the failure count is
\* below the query's retry option and the query is still observed.
ShouldRetryAlways(p, q) == TRUE

ShouldRetry(p, q) == q.failureCount < Retry(p)

\* History of a successful response: was it for the selected key or for another one.
Settled(k) == IF k = CurKey THEN "current" ELSE "other"

NotSettled == "never"


(***************************************************************************)
(* Query layer: initial state (the page has mounted).                      *)
(***************************************************************************)
InitialCoordinates(p) ==
  CASE p = "index" -> {None} \cup Locs
    [] p = "indexLegacy" -> {None}
    [] OTHER -> {"KualaLumpur"}

EmptyCache(p) == [k \in Keys(p) |-> IdleQuery]

EmptyNet(p) == [k \in Keys(p) |-> NoCalls]

QueryInit ==
  /\ page \in Pages
  /\ coordinates \in InitialCoordinates(page)
  /\ unit \in (IF page = "airQuality" THEN {"celsius"} ELSE Units)
  /\ mapType = (IF page = "map" THEN "temp" ELSE None)
  /\ lastSettled = NotSettled
  /\ LET o == Observe(page, CurKey, EmptyCache(page), EmptyNet(page)) IN
     IF Enabled(page, coordinates)
       THEN /\ queries = o.queries
            /\ net = o.net
            /\ fetches = 1
       ELSE /\ queries = EmptyCache(page)
            /\ net = EmptyNet(page)
            /\ fetches = 0

(***************************************************************************)
(* Query layer: actions.                                                   *)
(***************************************************************************)
\* The selection changes to (l, u, m): the observer follows the key.
Select(l, u, m) ==
  LET k == QueryKey(page, l, u, m)
      o == Observe(page, k, queries, net)
  IN  /\ coordinates' = l
      /\ unit' = u
      /\ mapType' = m
      /\ IF Enabled(page, l) /\ k # CurKey
           THEN /\ o.called => fetches < MaxFetches
                /\ queries' = o.queries
                /\ net' = o.net
                /\ fetches' = IF o.called THEN fetches + 1 ELSE fetches
           ELSE UNCHANGED <<queries, net, fetches>>
      /\ UNCHANGED <<page, lastSettled>>

\* handleSelectLocation, handleUseCurrentLocation, location detection.
SelectLocation(l) ==
  /\ l # coordinates
  /\ Select(l, unit, mapType)

\* UnitToggle.
SetUnit(u) ==
  /\ page # "airQuality"
  /\ u # unit
  /\ Select(coordinates, u, mapType)

\* The map page's tabs.
SetMapType(m) ==
  /\ page = "map"
  /\ m # mapType
  /\ Select(coordinates, unit, m)

\* The awaited call for key k resolves with a 2xx response.
NetSucceed(k) ==
  /\ net[k].live > 0
  /\ queries' = [queries EXCEPT ![SettleKey(k)] =
                   [@ EXCEPT !.status = "success", !.data = ResponseData(page, k),
                             !.fetching = FALSE, !.stale = FALSE,
                             !.failureCount = 0]]
  /\ net' = [net EXCEPT ![k].live = @ - 1, ![k].issued = "never"]
  /\ lastSettled' = Settled(k)
  /\ UNCHANGED <<page, coordinates, unit, mapType, fetches>>

\* The awaited call for key k fails (transport error or non-2xx). While the
\* query is observed and may retry, the next attempt is made (after the retry
\* delay); otherwise the query settles in the error state, keeping its data.
NetFail(k) ==
  /\ net[k].live > 0
  /\ LET q == queries[k] IN
     IF k = CurKey /\ ShouldRetry(page, q)
       THEN /\ queries' = [queries EXCEPT ![k].failureCount = @ + 1]
            /\ net' = [net EXCEPT ![k].issued = Issued(k, queries)]
       ELSE /\ queries' = [queries EXCEPT ![k].failureCount = @ + 1,
                                           ![k].status = "error",
                                           ![k].fetching = FALSE]
            /\ net' = [net EXCEPT ![k].live = @ - 1, ![k].issued = "never"]
  /\ UNCHANGED <<page, coordinates, unit, mapType, lastSettled, fetches>>

\* The response of a cancelled fetch arrives and is dropped.
DropCancelled(k) ==
  /\ net[k].dead > 0
  /\ net' = [net EXCEPT ![k].dead = @ - 1]
  /\ UNCHANGED <<page, coordinates, unit, mapType, queries, lastSettled, fetches>>

\* ErrorDisplay's retryAction = refetch. refetch cancels a fetch in flight when
\* the query holds data (cancelRefetch) and starts a new one.
Refetch ==
  /\ page \in IndexPages
  /\ coordinates # None
  /\ queries[CurKey].status = "error"
  /\ LET k == CurKey
         q == queries[k]
     IN  IF q.fetching /\ q.data = NoData
           THEN UNCHANGED <<queries, net, fetches>>
           ELSE /\ fetches < MaxFetches
                /\ fetches' = fetches + 1
                /\ queries' = [queries EXCEPT ![k] = FetchState(q)]
                /\ net' = [net EXCEPT ![k] = [live |-> 1, dead |-> @.dead + @.live,
                                              issued |-> Issued(k, queries)]]
  /\ UNCHANGED <<page, coordinates, unit, mapType, lastSettled>>

\* staleTime passes since the fetch of key k's data.
Expire(k) ==
  /\ queries[k].data # NoData
  /\ ~queries[k].stale
  /\ queries' = [queries EXCEPT ![k].stale = TRUE]
  /\ UNCHANGED <<page, coordinates, unit, mapType, net, lastSettled, fetches>>

\* The Index page is left and entered again. The page with persisted
\* coordinates restores them and its observer subscribes anew; the page without
\* starts with no coordinates. The unit is restored from the preference store.
Remount ==
  /\ page \in IndexPages
  /\ coordinates # None
  /\ IF page = "index"
       THEN LET o == Observe(page, CurKey, queries, net) IN
            /\ o.called => fetches < MaxFetches
            /\ fetches' = IF o.called THEN fetches + 1 ELSE fetches
            /\ queries' = o.queries
            /\ net' = o.net
            /\ UNCHANGED coordinates
       ELSE /\ coordinates' = None
            /\ UNCHANGED <<queries, net, fetches>>
  /\ UNCHANGED <<page, unit, mapType, lastSettled>>

(***************************************************************************)
(* Data clients: fetchWeatherByCoordinates and fetchAirQualityData.        *)
(* An array of a response body is modelled by its length; a forecast       *)
(* section (hourly, daily) by its time array and one of its value arrays.  *)
(***************************************************************************)
\* Longest array of a response body.
MaxArrayLen == 2

Undefined == [defined |-> FALSE, len |-> 0]

Array(n) == [defined |-> TRUE, len |-> n]

Arrays == {Undefined} \cup {Array(n) : n \in 0..MaxArrayLen}

NoHourly == [present |-> FALSE, time |-> Undefined, temperature_2m |-> Undefined]

HourlySections ==
  {NoHourly} \cup {[present |-> TRUE, time |-> t, temperature_2m |-> v] : t, v \in Arrays}

NoDaily == [present |-> FALSE, time |-> Undefined, weather_code |-> Undefined]

DailySections ==
  {NoDaily} \cup {[present |-> TRUE, time |-> t, weather_code |-> v] : t, v \in Arrays}

\* response.data: is there a current object, the daily and the hourly object.
Bodies == [current : BOOLEAN, daily : DailySections, hourly : HourlySections]

EmptyBody == [current |-> FALSE, daily |-> NoDaily, hourly |-> NoHourly]

HttpStatuses == {200, 404, 500}

\* What axios.get meets: no response at all, or a response with a status.
Responses ==
  {[kind |-> "transport", status |-> 0, body |-> EmptyBody]}
    \cup {[kind |-> "http", status |-> st, body |-> EmptyBody] : st \in HttpStatuses \ {200}}
    \cup {[kind |-> "http", status |-> 200, body |-> b] : b \in Bodies}

NoResponse == [kind |-> "none", status |-> 0, body |-> EmptyBody]

VARIABLES
  fn,        \* the client function that was called (None: not called yet)
  sent,      \* the network requests the call has issued
  response,  \* what the request met
  outcome    \* how the call ended

fetchVars == <<fn, sent, response, outcome>>

\* axios.get rejects without a response and with a status outside 2xx.
RejectedTransportOnly(r) == r.kind = "transport"

Rejected(r) == r.kind = "transport" \/ r.status < 200 \/ r.status >= 300

\* The mapping reads data.current.time, data.daily.time, data.hourly.time: it
\* throws a TypeError when one of the three objects is missing.
MappingThrows(b) == ~b.current \/ ~b.daily.present \/ ~b.hourly.present

\* Map API response to our interface: the arrays are taken over as they are.
WeatherData(b) ==
  [current |-> b.current,
   daily |-> [time |-> b.daily.time, weatherCode |-> b.daily.weather_code],
   hourly |-> [time |-> b.hourly.time, temperature |-> b.hourly.temperature_2m]]

NoWeatherData ==
  [current |-> FALSE,
   daily |-> [time |-> Undefined, weatherCode |-> Undefined],
   hourly |-> [time |-> Undefined, temperature |-> Undefined]]

FailureMessage(f) ==
  IF f = "fetchWeatherByCoordinates"
    THEN "Failed to fetch weather data. Please try again."
    ELSE "Failed to fetch air quality data. Please try again later."

NoOutcome == [kind |-> "none", message |-> "", weather |-> NoWeatherData, raw |-> EmptyBody]

Threw(f) == [NoOutcome EXCEPT !.kind = "threw", !.message = FailureMessage(f)]

\* try { await axios.get; map; return } catch { throw new Error(message) }
fetchWeatherByCoordinates(r) ==
  IF Rejected(r) \/ MappingThrows(r.body)
    THEN Threw("fetchWeatherByCoordinates")
    ELSE [NoOutcome EXCEPT !.kind = "returned", !.weather = WeatherData(r.body)]

\* try { await axios.get; return response.data } catch { throw new Error(message) }
fetchAirQualityData(r) ==
  IF Rejected(r)
    THEN Threw("fetchAirQualityData")
    ELSE [NoOutcome EXCEPT !.kind = "returned", !.raw = r.body]

FetchInit ==
  /\ fn = None
  /\ sent = <<>>
  /\ response = NoResponse
  /\ outcome = NoOutcome

\* fetchWeatherByCoordinates(coordinates, unit) up to its await.
CallWeather(l, u) ==
  /\ fn = None
  /\ fn' = "fetchWeatherByCoordinates"
  /\ sent' = Append(sent, [api |-> "forecast", loc |-> l, temperature_unit |-> u])
  /\ UNCHANGED <<response, outcome>>

\* fetchAirQualityData(latitude, longitude) up to its await.
CallAirQuality(l) ==
  /\ fn = None
  /\ fn' = "fetchAirQualityData"
  /\ sent' = Append(sent, [api |-> "air-quality", loc |-> l, temperature_unit |-> None])
  /\ UNCHANGED <<response, outcome>>

\* The request is answered and the call runs to its end.
Respond(r) ==
  /\ fn # None
  /\ outcome = NoOutcome
  /\ response' = r
  /\ outcome' = IF fn = "fetchWeatherByCoordinates"
                  THEN fetchWeatherByCoordinates(r)
                  ELSE fetchAirQualityData(r)
  /\ UNCHANGED <<fn, sent>>

(***************************************************************************)
(* Condition classifier: mapWeatherCode(code, isDay) of weather-utils.     *)
(* The range table lists 71-86 (snow) before 80-82 (showers): the two rows *)
(* overlap, and which of them decides 80-82 is left to the reading of the  *)
(* table (rows as listed, or the narrower row first).                      *)
(***************************************************************************)
\* Weather codes run from -CodesBelowZero to MaxWeatherCode.
CodesBelowZero == 3

MaxWeatherCode == 101

WeatherCodes == (0 - CodesBelowZero)..MaxWeatherCode

\* The closed enumeration WeatherCondition (the cases of WeatherIcon).
WeatherConditions ==
  {"clear-day", "clear-night", "partly-cloudy-day", "partly-cloudy-night", "cloudy",
   "rain", "showers", "thunderstorm", "snow", "fog"}

TableReadings == {"as-listed", "narrowest-first"}

Unclassified == "unclassified"

VARIABLES
  weatherCode,   \* current.weatherCode
  isDay,         \* current.isDay (0 or 1)
  tableReading,  \* which of two overlapping rows decides
  condition      \* the result of mapWeatherCode (Unclassified before the call)

classifyVars == <<weatherCode, isDay, tableReading, condition>>

InRange(code, lo, hi) == lo <= code /\ code <= hi

\* mapWeatherCode without the day/night distinction.
mapWeatherCodeDayOnly(code, day, reading) ==
  CASE InRange(code, 0, 1) -> "clear-day"
    [] InRange(code, 2, 3) -> "partly-cloudy-day"
    [] InRange(code, 45, 48) -> "fog"
    [] InRange(code, 51, 67) -> "rain"
    [] InRange(code, 80, 82) /\ reading = "narrowest-first" -> "showers"
    [] InRange(code, 71, 86) -> "snow"
    [] InRange(code, 95, 99) -> "thunderstorm"
    [] OTHER -> "clear-day"

mapWeatherCode(code, day, reading) ==
  CASE InRange(code, 0, 1) -> IF day # 0 THEN "clear-day" ELSE "clear-night"
    [] InRange(code, 2, 3) -> IF day # 0 THEN "partly-cloudy-day" ELSE "partly-cloudy-night"
    [] InRange(code, 45, 48) -> "fog"
    [] InRange(code, 51, 67) -> "rain"
    [] InRange(code, 80, 82) /\ reading = "narrowest-first" -> "showers"
    [] InRange(code, 71, 86) -> "snow"
    [] InRange(code, 95, 99) -> "thunderstorm"
    [] OTHER -> "clear-day"

ClassifyInit ==
  /\ weatherCode \in WeatherCodes
  /\ isDay \in {0, 1}
  /\ tableReading \in TableReadings
  /\ condition = Unclassified

ClassifyRest ==
  /\ weatherCode = 0
  /\ isDay = 1
  /\ tableReading = "as-listed"
  /\ condition = Unclassified

\* CurrentWeather: const condition = mapWeatherCode(current.weatherCode, current.isDay)
Classify ==
  /\ condition = Unclassified
  /\ condition' = mapWeatherCode(weatherCode, isDay, tableReading)
  /\ UNCHANGED <<weatherCode, isDay, tableReading>>

\* The next sample is shown: another code, another flag.
NextSample(code, day) ==
  /\ condition # Unclassified
  /\ weatherCode' = code
  /\ isDay' = day
  /\ condition' = Unclassified
  /\ UNCHANGED tableReading

(***************************************************************************)
(* Temporal selector: getNextNHours(hourly, n) of weather-utils.           *)
(* Time is counted in half hours; a series has one sample per hour.        *)
(***************************************************************************)
\* Longest hourly series.
MaxHours == 4

\* hourly.time of a series of len samples that starts at half hour 0.
HourlyTime(len) == [x \in 1..len |-> 2 * (x - 1)]

VARIABLES
  time,         \* hourly.time
  now,          \* the current time
  n,            \* the number of hours asked for
  hourIndices,  \* the result of getNextNHours
  selected      \* has getNextNHours been called

hoursVars == <<time, now, n, hourIndices, selected>>

\* Indices (from 0) of the samples at or after t.
FutureIndices(ts, t) == {x \in 0..(Len(ts) - 1) : ts[x + 1] >= t}

SetMin(S) == CHOOSE x \in S : \A y \in S : x <= y

\* The first sample at or after t, or the closest preceding one (the last
\* sample) when none is left.
StartIndex(ts, t) ==
  IF FutureIndices(ts, t) # {} THEN SetMin(FutureIndices(ts, t)) ELSE Len(ts) - 1

\* getNextNHours that pads: count indices from the start, past the end of the series.
getNextNHoursPadded(ts, t, count) ==
  IF Len(ts) = 0 THEN <<>>
  ELSE [x \in 1..count |-> StartIndex(ts, t) + x - 1]

getNextNHours(ts, t, count) ==
  IF Len(ts) = 0 THEN <<>>
  ELSE LET start == StartIndex(ts, t)
           left == Len(ts) - start
       IN  [x \in 1..(IF count < left THEN count ELSE left) |-> start + x - 1]

\* Half hours of the tolerance window (1800000 ms).
NowWindow == 1

isNowWithinTheHour(t, c) == (IF c >= t THEN c - t ELSE t - c) <= 2 * NowWindow

\* isNow: Math.abs(now.getTime() - forecastTime.getTime()) < 1800000
isNow(t, c) == (IF c >= t THEN c - t ELSE t - c) < NowWindow

\* The displayed samples that the strip labels "Now".
Highlighted == {x \in 1..Len(hourIndices) : isNow(time[hourIndices[x] + 1], now)}

HoursInit ==
  /\ \E len \in 0..MaxHours :
       /\ time = HourlyTime(len)
       /\ now \in (0 - 1)..(2 * len + 1)
       /\ n \in 0..len
  /\ hourIndices = <<>>
  /\ selected = FALSE

HoursRest ==
  /\ time = <<>>
  /\ now = 0
  /\ n = 0
  /\ hourIndices = <<>>
  /\ selected = FALSE

\* HourlyForecast, WeatherChart: const hourIndices = getNextNHours(hourly, n)
SelectHours ==
  /\ ~selected
  /\ hourIndices' = getNextNHours(time, now, n)
  /\ selected' = TRUE
  /\ UNCHANGED <<time, now, n>>

\* Half an hour passes and the component renders again.
Tick ==
  /\ selected
  /\ now < 2 * Len(time) + 1
  /\ now' = now + 1
  /\ hourIndices' = <<>>
  /\ selected' = FALSE
  /\ UNCHANGED <<time, n>>

(***************************************************************************)
(* Overlay of the weather map: the effect that runs visualizeWeatherData.  *)
(* point.value is held in units of 1/ValueScale, the random factor in      *)
(* tenths, offsets in tenths of a degree, radii in 1/ValueScale metres.    *)
(* The random value of a point is drawn when the point is rendered: the    *)
(* generating loop stores it and nothing reads it before.                  *)
(***************************************************************************)
gridSize == 10

radius == 2

ValueScale == 10000

\* Circles of the layer are counted up to MaxCircles.
MaxCircles == 3

\* 0.7 + Math.random() * 0.6, in tenths.
RandomFactors == {7, 10, 12}

\* Math.random() > 0.7, drawn for the precipitation map only.
ClusterDraws(m) == IF m = "precipitation" THEN BOOLEAN ELSE {FALSE}

\* weatherData is undefined (loading, or failed).
NoSample ==
  [loaded |-> FALSE, temperature_2m |-> 0, precipitation |-> 0, cloud_cover |-> 0,
   wind_speed_10m |-> 0, missing |-> {}]

\* weatherData.current: degrees Celsius, tenths of a millimetre, percent,
\* tenths of km/h; missing: the fields the response lacks.
Samples ==
  {[loaded |-> TRUE, temperature_2m |-> 22, precipitation |-> 0, cloud_cover |-> 0,
    wind_speed_10m |-> 0, missing |-> {}],
   [loaded |-> TRUE, temperature_2m |-> 0 - 5, precipitation |-> 3, cloud_cover |-> 12,
    wind_speed_10m |-> 80, missing |-> {}],
   [loaded |-> TRUE, temperature_2m |-> 30, precipitation |-> 0, cloud_cover |-> 0,
    wind_speed_10m |-> 0, missing |-> {"precipitation", "cloud_cover", "wind_speed_10m"}]}

VARIABLES
  current,     \* weatherData.current of the map's query (NoSample: no data)
  phase,       \* position of the effect: "generate", "render", "done"
  gi, gj,      \* loop counters i, j
  points,      \* points
  rendered,    \* number of points the forEach has handled
  layerCount,  \* number of circles in weatherLayer (MaxCircles: that many or more)
  lastPoint    \* history: the point handled last, its value and its circle

overlayVars == <<current, phase, gi, gj, points, rendered, layerCount, lastPoint>>

\* weatherData.current.f || 0
OrZero(c, f) == IF f \in c.missing THEN 0 ELSE c[f]

\* The largest r in lo..hi with r * r <= x.
RECURSIVE SqrtBetween(_, _, _)
SqrtBetween(x, lo, hi) ==
  IF lo = hi THEN lo
  ELSE LET mid == (lo + hi + 1) \div 2
       IN  IF mid * mid <= x THEN SqrtBetween(x, mid, hi) ELSE SqrtBetween(x, lo, mid - 1)

\* Math.sqrt(x) in hundredths, rounded down.
Sqrt100(x) == SqrtBetween(10000 * x, 0, 100 * (2 * gridSize))

\* Skip points too far from center: Math.sqrt(i*i + j*j) > gridSize.
TooFarNever(i, j) == FALSE

TooFar(i, j) == i * i + j * j > gridSize * gridSize

\* { lat: location.lat + i * radius / gridSize, lon: ... } as offsets from location.
Point(i, j) ==
  [i |-> i, j |-> j,
   lat |-> (i * radius * 10) \div gridSize,
   lon |-> (j * radius * 10) \div gridSize]

\* 1 - (Math.sqrt(i*i + j*j) / gridSize) * 0.4, in hundredths.
DistanceFactor(i, j) == 100 - (Sqrt100(i * i + j * j) * 40) \div (gridSize * 100)

\* value of a point for the map type, random factor rf and cluster draw.
Value(m, c, pt, rf, cluster) ==
  CASE m = "temp" -> c.temperature_2m * DistanceFactor(pt.i, pt.j) * rf * 10
    [] m = "precipitation" ->
         OrZero(c, "precipitation") * rf * rf * rf * (IF cluster THEN 3 ELSE 1)
    [] m = "clouds" -> OrZero(c, "cloud_cover") * rf * 1000
    [] m = "wind" -> OrZero(c, "wind_speed_10m") * rf * 100
    [] OTHER -> 0

NoCircle == [drawn |-> FALSE, fillColor |-> "", fillOpacity |-> 0, radius |-> 0]

Circle(color, opacity, r) ==
  [drawn |-> TRUE, fillColor |-> color, fillOpacity |-> opacity, radius |-> r]

\* point.value = (point.value * 9/5) + 32
ToFahrenheitSkipped(v) == v

ToFahrenheit(v) == (v * 9) \div 5 + 32 * ValueScale

TempCircle(u, v0) ==
  LET v == IF u = "fahrenheit" THEN ToFahrenheit(v0) ELSE v0
      r == 20000 * ValueScale + v * 500
  IN  IF v < 0 THEN Circle("rgb(0, 50, 200)", 60, r)
      ELSE IF v < 10 * ValueScale THEN Circle("rgb(30, 100, 255)", 60, r)
      ELSE IF v < 20 * ValueScale THEN Circle("rgb(50, 150, 255)", 50, r)
      ELSE IF v < 25 * ValueScale THEN Circle("rgb(100, 200, 50)", 50, r)
      ELSE IF v < 30 * ValueScale THEN Circle("rgb(255, 200, 0)", 60, r)
      ELSE IF v < 35 * ValueScale THEN Circle("rgb(255, 100, 0)", 70, r)
      ELSE Circle("rgb(200, 0, 0)", 70, r)

\* if (point.value === 0) return
NoPrecipitationNegative(v) == v < 0

NoPrecipitation(v) == v = 0

PrecipitationCircle(v) ==
  LET r == 15000 * ValueScale + v * 2000
  IN  IF NoPrecipitation(v) THEN NoCircle
      ELSE IF 2 * v < ValueScale THEN Circle("rgba(200, 220, 255, 0.6)", 40, r)
      ELSE IF v < 2 * ValueScale THEN Circle("rgba(100, 150, 255, 0.7)", 50, r)
      ELSE IF v < 5 * ValueScale THEN Circle("rgba(50, 100, 255, 0.8)", 60, r)
      ELSE Circle("rgba(20, 50, 200, 0.9)", 70, r)

\* if (point.value < 10) return
ClearSky(v) == v < 10 * ValueScale

CloudCircle(v) ==
  LET r == 20000 * ValueScale + v * 200
  IN  IF ClearSky(v) THEN NoCircle
      ELSE IF v < 30 * ValueScale THEN Circle("rgba(220, 220, 220, 0.7)", 30, r)
      ELSE IF v < 60 * ValueScale THEN Circle("rgba(180, 180, 180, 0.8)", 40, r)
      ELSE IF v < 85 * ValueScale THEN Circle("rgba(150, 150, 150, 0.8)", 50, r)
      ELSE Circle("rgba(100, 100, 100, 0.9)", 60, r)

WindCircle(v) ==
  LET r == 15000 * ValueScale + v * 1000
  IN  IF v < 5 * ValueScale THEN Circle("rgba(100, 200, 100, 0.6)", 40, r)
      ELSE IF v < 15 * ValueScale THEN Circle("rgba(150, 200, 50, 0.7)", 50, r)
      ELSE IF v < 30 * ValueScale THEN Circle("rgba(255, 200, 0, 0.8)", 60, r)
      ELSE Circle("rgba(255, 50, 0, 0.9)", 70, r)

\* The body of points.forEach: the circle a point gets, if any.
RenderPoint(m, u, v) ==
  CASE m = "temp" -> TempCircle(u, v)
    [] m = "precipitation" -> PrecipitationCircle(v)
    [] m = "clouds" -> CloudCircle(v)
    [] m = "wind" -> WindCircle(v)
    [] OTHER -> Circle("blue", 50, 15000 * ValueScale)

NoPoint == [i |-> 0, j |-> 0, value |-> 0, circle |-> NoCircle]

\* The component has mounted: no data yet, the effect has returned early.
OverlayInit ==
  /\ current = NoSample
  /\ phase = "done"
  /\ gi = 0
  /\ gj = 0
  /\ points = <<>>
  /\ rendered = 0
  /\ layerCount = 0
  /\ lastPoint = NoPoint

\* location, weatherData, mapType or unit changes and the effect runs: without
\* data it returns at once; with data it clears the layer and starts the grid
\* loops.
WeatherEffect(l, m, u, c) ==
  /\ phase = "done"
  /\ <<l, m, u, c>> # <<coordinates, mapType, unit, current>>
  /\ coordinates' = l
  /\ mapType' = m
  /\ unit' = u
  /\ current' = c
  /\ IF c = NoSample
       THEN UNCHANGED <<phase, gi, gj, points, rendered, layerCount, lastPoint>>
       ELSE /\ phase' = "generate"
            /\ gi' = 0 - gridSize
            /\ gj' = 0 - gridSize
            /\ points' = <<>>
            /\ rendered' = 0
            /\ layerCount' = 0
            /\ lastPoint' = NoPoint
  /\ UNCHANGED <<page, queries, net, lastSettled, fetches>>

\* One pass of the inner loop over j.
GenerateStep ==
  /\ phase = "generate"
  /\ points' = IF TooFar(gi, gj) THEN points ELSE Append(points, Point(gi, gj))
  /\ IF gj < gridSize
       THEN /\ gj' = gj + 1
            /\ UNCHANGED <<gi, phase>>
       ELSE IF gi < gridSize
         THEN /\ gj' = 0 - gridSize
              /\ gi' = gi + 1
              /\ UNCHANGED phase
         ELSE /\ phase' = "render"
              /\ UNCHANGED <<gi, gj>>
  /\ UNCHANGED <<current, rendered, layerCount, lastPoint>>
  /\ UNCHANGED queryVars

\* One call of the forEach callback, for the point after the last one handled.
RenderStep(rf, cluster) ==
  /\ phase = "render"
  /\ IF rendered < Len(points)
       THEN LET pt == points[rendered + 1]
                v == Value(mapType, current, pt, rf, cluster)
                c == RenderPoint(mapType, unit, v)
            IN  /\ rendered' = rendered + 1
                /\ layerCount' = IF c.drawn /\ layerCount < MaxCircles
                                   THEN layerCount + 1 ELSE layerCount
                /\ lastPoint' = [i |-> pt.i, j |-> pt.j, value |-> v, circle |-> c]
                /\ UNCHANGED phase
       ELSE /\ phase' = "done"
            /\ UNCHANGED <<rendered, layerCount, lastPoint>>
  /\ UNCHANGED <<current, gi, gj, points>>
  /\ UNCHANGED queryVars

(***************************************************************************)
(* Location detection on mount: the Index page (both versions), the map    *)
(* page and the air-quality page. Latitudes and longitudes are held in     *)
(* units of 1/100000 degree; a name is held by its format and its parts.   *)
(***************************************************************************)
\* position.coords of the positions the browser reports.
Positions == {[lat |-> 4885661, lon |-> 235222], [lat |-> -3386885, lon |-> 15120929]}

NoPosition == [lat |-> 0, lon |-> 0]

\* (x / 100000).toFixed(4), in units of 1/10000: the nearest, a tie away from zero.
toFixed4(x) == IF x >= 0 THEN (x + 5) \div 10 ELSE -((-x + 5) \div 10)

PlaceName(nm, a) ==
  [format |-> IF a = "" THEN "name" ELSE "name, admin",
   name |-> nm, admin |-> a, lat |-> 0, lon |-> 0]

\* `Location (${latitude.toFixed(4)}, ${longitude.toFixed(4)})`
CoordinateName(p) ==
  [format |-> "Location (lat, lon)",
   name |-> "", admin |-> "", lat |-> toFixed4(p.lat), lon |-> toFixed4(p.lon)]

EmptyName == PlaceName("", "")

CurrentLocationName == PlaceName("Current Location", "")

Location(la, lo, nm, cur) ==
  [lat |-> la, lon |-> lo, name |-> nm, isCurrentLocation |-> cur, hasCoordinates |-> TRUE]

\* coordinates null and locationName '' of the Index page.
NoLocation ==
  [lat |-> 0, lon |-> 0, name |-> EmptyName, isCurrentLocation |-> FALSE,
   hasCoordinates |-> FALSE]

KualaLumpur == Location(313900, 10168690, PlaceName("Kuala Lumpur", ""), FALSE)

\* A place the user picks in the search box.
London == Location(5150740, -12780, PlaceName("London", ""), FALSE)

\* results[0] of the geocoding service ("": the field is missing).
GeocodingResults ==
  { [name |-> "Bangsar", admin3 |-> "Kuala Lumpur", admin2 |-> "", admin1 |-> "Kuala Lumpur"],
    [name |-> "Paris", admin3 |-> "", admin2 |-> "Paris", admin1 |-> "Ile-de-France"],
    [name |-> "Sydney", admin3 |-> "", admin2 |-> "", admin1 |-> "New South Wales"],
    [name |-> "Null Island", admin3 |-> "", admin2 |-> "", admin1 |-> ""] }

\* What the reverse-geocoding fetch meets: the request is rejected (arrives
\* FALSE) or a response arrives, 2xx or not, whose body parses or not, with
\* or without a results array.
GeocodeResponses ==
  { [arrives |-> FALSE, ok |-> FALSE, parses |-> FALSE, hasResults |-> FALSE, results |-> <<>>] }
    \cup { [arrives |-> TRUE, ok |-> o, parses |-> FALSE, hasResults |-> FALSE, results |-> <<>>] :
             o \in BOOLEAN }
    \cup { [arrives |-> TRUE, ok |-> o, parses |-> TRUE, hasResults |-> h, results |-> <<>>] :
             o, h \in BOOLEAN }
    \cup { [arrives |-> TRUE, ok |-> o, parses |-> TRUE, hasResults |-> TRUE, results |-> <<r>>] :
             o \in BOOLEAN, r \in GeocodingResults }

NoGeocode ==
  [arrives |-> FALSE, ok |-> FALSE, parses |-> FALSE, hasResults |-> FALSE, results |-> <<>>]

\* localStorage: fg-weather-remember-location, fg-weather-coordinates with
\* fg-weather-location-name (saved: both are there), fg-weather-is-current-location.
Storage(rem, sv, loc, cur) ==
  [remember |-> rem, saved |-> sv, lat |-> loc.lat, lon |-> loc.lon, name |-> loc.name,
   isCurrent |-> cur]

Storages ==
  { Storage(rem, FALSE, NoLocation, FALSE) : rem \in BOOLEAN }
    \cup { Storage(rem, TRUE, London, cur) : rem, cur \in BOOLEAN }

VARIABLES
  mounted,      \* the page that is mounted
  geolocation,  \* navigator.geolocation is there
  storage,      \* localStorage
  location,     \* the location state of the page (Index: coordinates, locationName)
  isLoading,    \* map: isLoading; air quality: isDetectingLocation; Index: the loading context
  error,        \* the error state of the map page
  detection,    \* where the detection on mount stands
  position,     \* the position the browser reported
  geocoded,     \* what the reverse-geocoding request met
  selection     \* the location the user has selected since the page mounted (none: NoLocation)

detectVars ==
  <<mounted, geolocation, storage, location, isLoading, error, detection, position, geocoded,
    selection>>

SavedLocation(s) == Location(s.lat, s.lon, s.name, s.isCurrent)

\* The state the page is constructed with.
InitialLocation(pg, s) ==
  CASE pg = "map" -> IF s.remember /\ s.saved THEN SavedLocation(s) ELSE KualaLumpur
    [] pg = "airQuality" -> KualaLumpur
    [] pg = "index" -> IF s.saved THEN Location(s.lat, s.lon, s.name, FALSE) ELSE NoLocation
    [] pg = "indexLegacy" -> NoLocation

\* The try block of the success callback, map page and air-quality page.
LocationNameUnchecked(r, p) ==
  IF r.arrives /\ r.parses /\ r.hasResults /\ Len(r.results) > 0
    THEN LET res == r.results[1]
             a == IF res.admin3 # "" THEN res.admin3
                  ELSE IF res.admin2 # "" THEN res.admin2 ELSE res.admin1
         IN PlaceName(res.name, a)
    ELSE CoordinateName(p)

LocationName(r, p) ==
  IF r.arrives /\ r.ok /\ r.parses /\ r.hasResults /\ Len(r.results) > 0
    THEN LET res == r.results[1]
             a == IF res.admin3 # "" THEN res.admin3
                  ELSE IF res.admin2 # "" THEN res.admin2 ELSE res.admin1
         IN PlaceName(res.name, a)
    ELSE CoordinateName(p)

\* data.results?.[0]?.name || "Current Location" of the Index page, and its catch.
IndexLocationName(r) ==
  IF r.arrives /\ r.parses /\ r.hasResults /\ Len(r.results) > 0
    THEN PlaceName(r.results[1].name, "")
    ELSE CurrentLocationName

\* The effect of the Index page that saves coordinates and locationName.
SaveIndexLocation(s, l) ==
  [s EXCEPT !.saved = TRUE, !.lat = l.lat, !.lon = l.lon, !.name = l.name]

DetectInit ==
  /\ mounted \in Pages
  /\ geolocation \in BOOLEAN
  /\ storage \in Storages
  /\ location = InitialLocation(mounted, storage)
  /\ isLoading = (mounted = "map")
  /\ error = None
  /\ detection = "unstarted"
  /\ position = NoPosition
  /\ geocoded = NoGeocode
  /\ selection = NoLocation

DetectRest ==
  /\ mounted = "map"
  /\ geolocation = FALSE
  /\ storage = Storage(FALSE, FALSE, NoLocation, FALSE)
  /\ location = KualaLumpur
  /\ isLoading = TRUE
  /\ error = None
  /\ detection = "unstarted"
  /\ position = NoPosition
  /\ geocoded = NoGeocode
  /\ selection = NoLocation

\* The effects that run once after the first render.
MountEffect ==
  /\ detection = "unstarted"
  /\ CASE mounted = "map" ->
            IF ~location.isCurrentLocation /\ geolocation
              THEN /\ isLoading' = TRUE
                   /\ detection' = "positioning"
                   /\ UNCHANGED location
              ELSE /\ isLoading' = FALSE
                   /\ detection' = IF location.isCurrentLocation THEN "skipped" ELSE "unavailable"
                   /\ UNCHANGED location
       [] mounted = "airQuality" ->
            /\ location' = IF storage.remember /\ storage.saved
                             THEN SavedLocation(storage) ELSE location
            /\ isLoading' = geolocation
            /\ detection' = IF geolocation THEN "positioning" ELSE "unavailable"
       [] mounted = "index" ->
            \* the later effect on isFetching sets the loading context to false
            /\ isLoading' = FALSE
            /\ detection' = IF location.hasCoordinates THEN "skipped"
                            ELSE IF geolocation THEN "positioning" ELSE "rejected"
            /\ UNCHANGED location
       [] mounted = "indexLegacy" ->
            /\ detection' = IF geolocation THEN "positioning" ELSE "rejected"
            /\ UNCHANGED <<location, isLoading>>
  /\ UNCHANGED <<mounted, geolocation, storage, error, position, geocoded, selection>>

\* The success callback of getCurrentPosition, up to the await of fetch.
PositionSuccess(p) ==
  /\ detection = "positioning"
  /\ position' = p
  /\ IF mounted = "indexLegacy"
       THEN /\ location' = Location(p.lat, p.lon, CurrentLocationName, FALSE)
            /\ detection' = "found"
       ELSE /\ detection' = "geocoding"
            /\ UNCHANGED location
  /\ UNCHANGED <<mounted, geolocation, storage, isLoading, error, geocoded, selection>>

\* The error callback of getCurrentPosition.
PositionError ==
  /\ detection = "positioning"
  /\ IF mounted \in IndexPages
       THEN /\ detection' = "rejected"
            /\ UNCHANGED isLoading
       ELSE /\ detection' = "unavailable"
            /\ isLoading' = FALSE
  /\ UNCHANGED <<mounted, geolocation, storage, location, error, position, geocoded, selection>>

\* The catch (and finally) of fetchUserLocation on the Index page.
LocationUnavailable ==
  /\ detection = "rejected"
  /\ detection' = "unavailable"
  /\ isLoading' = FALSE
  /\ UNCHANGED <<mounted, geolocation, storage, location, error, position, geocoded, selection>>

\* The rest of the success callback, once the reverse-geocoding fetch settles.
GeocodeSettles(r) ==
  /\ detection = "geocoding"
  /\ geocoded' = r
  /\ detection' = "found"
  /\ isLoading' = FALSE
  /\ CASE mounted = "map" ->
            LET nm == LocationName(r, position) IN
              /\ location' = Location(position.lat, position.lon, nm, TRUE)
              /\ storage' = IF storage.remember /\ r.arrives /\ r.ok /\ r.parses
                              THEN Storage(TRUE, TRUE, Location(position.lat, position.lon, nm, TRUE), TRUE)
                              ELSE storage
       [] mounted = "airQuality" ->
            LET nm == LocationName(r, position) IN
              /\ location' = Location(position.lat, position.lon, nm, TRUE)
              /\ storage' = IF ~storage.remember THEN storage
                            ELSE IF r.arrives /\ r.ok /\ r.parses
                              THEN Storage(TRUE, TRUE, Location(position.lat, position.lon, nm, TRUE), TRUE)
                              ELSE [storage EXCEPT !.name = nm]
       [] mounted = "index" ->
            LET l == Location(position.lat, position.lon, IndexLocationName(r), FALSE) IN
              /\ location' = l
              /\ storage' = SaveIndexLocation(storage, l)
  /\ UNCHANGED <<mounted, geolocation, error, position, selection>>

\* handleLocationChange of the map page and the air-quality page,
\* handleSelectLocation of the Index page.
handleLocationChange(l) ==
  /\ detection # "unstarted"
  /\ mounted = "map" => ~isLoading
  /\ location' = l
  /\ selection' = l
  /\ storage' = CASE mounted \in {"map", "airQuality"} ->
                       IF storage.remember THEN [storage EXCEPT !.isCurrent = FALSE] ELSE storage
                  [] mounted = "index" -> SaveIndexLocation(storage, l)
                  [] mounted = "indexLegacy" -> storage
  /\ UNCHANGED <<mounted, geolocation, isLoading, error, detection, position, geocoded>>

(***************************************************************************)
(* Location search: the LocationSearch box and searchLocation of           *)
(* weather-api. A query is the sequence of its characters.                 *)
(***************************************************************************)
\* Longest query typed.
MaxQueryLen == 3

\* In-flight searches kept apart.
MaxSearches == 2

QueryChars == {" ", "k"}

SearchQueries == UNION {[1..len -> QueryChars] : len \in 0..MaxQueryLen}

RECURSIVE trimStart(_)
trimStart(q) == IF q # <<>> /\ Head(q) = " " THEN trimStart(Tail(q)) ELSE q

RECURSIVE trimEnd(_)
trimEnd(q) ==
  IF q # <<>> /\ q[Len(q)] = " " THEN trimEnd(SubSeq(q, 1, Len(q) - 1)) ELSE q

\* String.prototype.trim
trim(q) == trimEnd(trimStart(q))

\* The geocoding request of searchLocation: params.name.
NoSearchRequest == [issued |-> FALSE, name |-> <<>>]

\* searchLocation(query): the axios.get it issues.
searchLocation(q) == [issued |-> TRUE, name |-> q]

\* What the search resolves to: the number of results, or a rejection.
SearchOutcomes == {[ok |-> TRUE, found |-> c] : c \in 0..1} \cup {[ok |-> FALSE, found |-> 0]}

VARIABLES
  query,          \* the text in the search box
  results,        \* the number of results listed
  isSearching,
  showResults,
  searching,      \* the searches in flight
  searchRequest,  \* the last request searchLocation has issued
  superseded,     \* the searches in flight issued before a later search, a clear or a selection
  shownFor        \* the search that set the list last: "latest", "earlier" or "none"

searchVars ==
  <<query, results, isSearching, showResults, searching, searchRequest, superseded, shownFor>>

SearchInit ==
  /\ query = <<>>
  /\ results = 0
  /\ isSearching = FALSE
  /\ showResults = FALSE
  /\ searching = 0
  /\ searchRequest = NoSearchRequest
  /\ superseded = 0
  /\ shownFor = "none"

\* onChange of the input.
setQuery(q) ==
  /\ query' = q
  /\ UNCHANGED <<results, isSearching, showResults, searching, searchRequest, superseded,
                 shownFor>>

\* handleSearch up to the await: the Search button (disabled while the
\* query is blank or a search runs) or the Enter key.
handleSearch ==
  /\ searching < MaxSearches
  /\ IF trim(query) = <<>>
       THEN UNCHANGED <<isSearching, searchRequest, searching, superseded>>
       ELSE /\ isSearching' = TRUE
            /\ searchRequest' = searchLocation(query)
            /\ searching' = searching + 1
            /\ superseded' = searching
  /\ UNCHANGED <<query, results, showResults, shownFor>>

\* handleSearch after the await: setResults or the toast, then finally.
SearchSettles(o) ==
  /\ searching > 0
  /\ searching' = searching - 1
  /\ results' = IF o.ok THEN o.found ELSE results
  /\ isSearching' = FALSE
  /\ showResults' = TRUE
  \* the responses arrive in any order
  /\ \E late \in BOOLEAN :
       /\ IF late THEN superseded > 0 ELSE searching > superseded
       /\ superseded' = IF late THEN superseded - 1 ELSE superseded
       /\ shownFor' = IF late THEN "earlier" ELSE "latest"
  /\ UNCHANGED <<query, searchRequest>>

\* handleSelectLocation and handleClearSearch of the box.
handleClearSearch ==
  /\ query' = <<>>
  /\ results' = 0
  /\ showResults' = FALSE
  /\ superseded' = searching
  /\ shownFor' = "none"
  /\ UNCHANGED <<isSearching, searching, searchRequest>>

\* searchLocation called by a caller of its own, the way the module exports it.
CallSearchLocation(q) ==
  /\ searchRequest' = searchLocation(q)
  /\ UNCHANGED <<query, results, isSearching, showResults, searching, superseded, shownFor>>

(***************************************************************************)
(* Air-quality classification: getAirQualityLevel and                      *)
(* getHealthRecommendations of air-quality-api, and the getAirQualityLevel *)
(* the air-quality page defines for itself.                                *)
(***************************************************************************)
\* Largest european_aqi of a reading.
MaxAqi == 120

AqiValues == 0..MaxAqi

\* The keys of airQualityLevels.
airQualityLevels == {"1", "2", "3", "4", "5"}

getAirQualityLevelStrict(aqi) ==
  IF aqi < 20 THEN "1"
  ELSE IF aqi < 40 THEN "2"
  ELSE IF aqi < 60 THEN "3"
  ELSE IF aqi < 80 THEN "4"
  ELSE "5"

getAirQualityLevel(aqi) ==
  IF aqi <= 20 THEN "1"
  ELSE IF aqi <= 40 THEN "2"
  ELSE IF aqi <= 60 THEN "3"
  ELSE IF aqi <= 80 THEN "4"
  ELSE "5"

\* getAirQualityLevel as the air-quality page defines it.
pageGetAirQualityLevel(aqi) ==
  IF aqi <= 50 THEN "1"
  ELSE IF aqi <= 100 THEN "2"
  ELSE IF aqi <= 150 THEN "3"
  ELSE IF aqi <= 200 THEN "4"
  ELSE "5"

getHealthRecommendations(aqi) ==
  [ventilation |-> IF aqi < 40
                     THEN "It's a good time to open windows and ventilate."
                     ELSE "Keep windows closed to avoid pollutants entering your home.",
   outdoor |-> IF aqi < 60
                 THEN "Safe for most outdoor activities."
                 ELSE "Consider limiting prolonged outdoor exertion.",
   sensitive |-> IF aqi < 40
                   THEN "No special precautions needed."
                   ELSE "Children, elderly and those with respiratory issues should take precautions."]

NoRecommendations == [ventilation |-> "", outdoor |-> "", sensitive |-> ""]

NoAssessment ==
  [assessed |-> FALSE, aqi |-> 0, level |-> None, recommendations |-> NoRecommendations]

VARIABLES
  currentAQI,       \* airQualityData.current.european_aqi || 0
  aqiLevel,         \* the level by air-quality-api (None: not rendered yet)
  pageAqiLevel,     \* the level by the page's own function
  recommendations,
  previous          \* the reading rendered before this one

airVars == <<currentAQI, aqiLevel, pageAqiLevel, recommendations, previous>>

AirInit ==
  /\ currentAQI \in AqiValues
  /\ aqiLevel = None
  /\ pageAqiLevel = None
  /\ recommendations = NoRecommendations
  /\ previous = NoAssessment

AirRest ==
  /\ currentAQI = 0
  /\ aqiLevel = None
  /\ pageAqiLevel = None
  /\ recommendations = NoRecommendations
  /\ previous = NoAssessment

\* The render of the air-quality page with data.
RenderAirQuality ==
  /\ aqiLevel = None
  /\ aqiLevel' = getAirQualityLevel(currentAQI)
  /\ pageAqiLevel' = pageGetAirQualityLevel(currentAQI)
  /\ recommendations' = getHealthRecommendations(currentAQI)
  /\ UNCHANGED <<currentAQI, previous>>

\* The query brings a new reading: the data is replaced wholesale.
NewReading(aqi) ==
  /\ aqiLevel # None
  /\ previous' = [assessed |-> TRUE, aqi |-> currentAQI, level |-> aqiLevel,
                  recommendations |-> recommendations]
  /\ currentAQI' = aqi
  /\ aqiLevel' = None
  /\ pageAqiLevel' = None
  /\ recommendations' = NoRecommendations

(***************************************************************************)
(* The preference store (localStorage): 'fg-weather-unit',                 *)
(* 'fg-weather-remember-location' and the saved coordinates with their     *)
(* name, and the pages that read and write them.                           *)
(*   index           Index with the lazy initial state (part_003)          *)
(*   indexHook       Index with a load effect and a save effect (part_002) *)
(*   map             the map page                                          *)
(*   settings        Settings with save effects                            *)
(*   settingsLegacy  Settings whose handlers write the store themselves    *)
(***************************************************************************)
PrefPages == {"index", "indexHook", "map", "settings", "settingsLegacy"}

\* Pages with an effect that saves unit whenever it has changed.
SavingPages == {"index", "indexHook", "settings"}

\* useState initializer of unit.
InitialUnit(p, stored) ==
  IF p = "indexHook" \/ stored = None THEN "celsius" ELSE stored

\* The load effect of indexHook: the setUnit it queues (None: nothing).
LoadedUnit(p, stored) ==
  IF p = "indexHook" /\ stored \in Units THEN stored ELSE None

\* rememberLocation.toString()
BoolString(b) == IF b THEN "true" ELSE "false"

VARIABLES
  prefPage,           \* the page that is mounted (None: none yet)
  storedUnit,         \* 'fg-weather-unit' (None: not set)
  storedRemember,     \* 'fg-weather-remember-location' (None: not set)
  storedCoordinates,  \* 'fg-weather-coordinates' and 'fg-weather-location-name' are set
  unitState,          \* the unit state of the mounted page
  rememberLocation,   \* the rememberLocation state of Settings
  pageCoordinates,    \* the mounted page has a location selected
  pending,            \* the save effects that are due after the last render
  chosen              \* the unit the user chose last (None: never chose one)

prefVars ==
  <<prefPage, storedUnit, storedRemember, storedCoordinates, unitState, rememberLocation,
    pageCoordinates, pending, chosen>>

\* A new session: what is stored is what was chosen in an earlier one, and
\* coordinates are stored only with the remember-location preference on.
PrefInit ==
  /\ prefPage = None
  /\ storedUnit \in Units \cup {None}
  /\ storedRemember \in {None, "true", "false"}
  /\ storedCoordinates \in BOOLEAN
  /\ storedCoordinates => storedRemember = "true"
  /\ unitState = "celsius"
  /\ rememberLocation = FALSE
  /\ pageCoordinates = FALSE
  /\ pending = {}
  /\ chosen = storedUnit

PrefRest ==
  /\ prefPage = None
  /\ storedUnit = None
  /\ storedRemember = None
  /\ storedCoordinates = FALSE
  /\ unitState = "celsius"
  /\ rememberLocation = FALSE
  /\ pageCoordinates = FALSE
  /\ pending = {}
  /\ chosen = None

\* A page mounts (navigation or reload): its state is initialised and its
\* mount effects run in the order they are declared.
MountPage(p) ==
  /\ pending = {}
  /\ prefPage' = p
  /\ LET u0 == InitialUnit(p, storedUnit)
         queued == LoadedUnit(p, storedUnit)
     IN  /\ storedUnit' = IF p \in SavingPages THEN u0 ELSE storedUnit
         /\ unitState' = IF queued # None THEN queued ELSE u0
         /\ pending' = IF queued # None /\ queued # u0 THEN {"unit"} ELSE {}
  /\ rememberLocation' = (p = "settings" /\ storedRemember = "true")
  /\ storedRemember' = IF p = "settings" THEN BoolString(storedRemember = "true")
                       ELSE storedRemember
  /\ storedCoordinates' = IF p = "settings" /\ storedRemember # "true" THEN FALSE
                          ELSE storedCoordinates
  /\ pageCoordinates' = CASE p = "index" -> storedCoordinates
                          [] p = "map" -> TRUE
                          [] OTHER -> FALSE
  /\ UNCHANGED chosen

\* UnitToggle: onUnitChange (toggleUnit, setUnit, handleUnitChange).
ChooseUnit(u) ==
  /\ prefPage # None
  /\ pending = {}
  /\ u # unitState
  /\ unitState' = u
  /\ chosen' = u
  /\ storedUnit' = IF prefPage = "settingsLegacy" THEN u ELSE storedUnit
  /\ pending' = IF prefPage \in SavingPages THEN {"unit"} ELSE {}
  /\ UNCHANGED <<prefPage, storedRemember, storedCoordinates, rememberLocation, pageCoordinates>>

\* The remember-location switch of Settings.
ToggleRememberLocation ==
  /\ prefPage = "settings"
  /\ pending = {}
  /\ rememberLocation' = ~rememberLocation
  /\ pending' = {"remember"}
  /\ UNCHANGED <<prefPage, storedUnit, storedRemember, storedCoordinates, unitState,
                 pageCoordinates, chosen>>

\* resetSettings / handleResetSettings.
ResetSettings ==
  /\ prefPage \in {"settings", "settingsLegacy"}
  /\ pending = {}
  /\ unitState' = "celsius"
  /\ chosen' = "celsius"
  /\ storedUnit' = IF prefPage = "settingsLegacy" THEN "celsius" ELSE storedUnit
  /\ rememberLocation' = (prefPage = "settings")
  /\ pending' = IF prefPage = "settings"
                  THEN (IF unitState # "celsius" THEN {"unit"} ELSE {})
                         \cup (IF ~rememberLocation THEN {"remember"} ELSE {})
                  ELSE {}
  /\ UNCHANGED <<prefPage, storedRemember, storedCoordinates, pageCoordinates>>

\* handleSelectLocation of Index: setCoordinates and setLocationName.
handleSelectLocation ==
  /\ prefPage = "index"
  /\ pending = {}
  /\ pageCoordinates' = TRUE
  /\ pending' = {"location"}
  /\ UNCHANGED <<prefPage, storedUnit, storedRemember, storedCoordinates, unitState,
                 rememberLocation, chosen>>

\* The map page saves the location it has detected.
SaveDetectedLocation ==
  /\ prefPage = "map"
  /\ pending = {}
  /\ storedCoordinates' = (storedCoordinates \/ storedRemember = "true")
  /\ UNCHANGED <<prefPage, storedUnit, storedRemember, unitState, rememberLocation,
                 pageCoordinates, pending, chosen>>

\* The save effects that are due run, in the order they are declared.
RunEffects ==
  /\ pending # {}
  /\ storedUnit' = IF "unit" \in pending THEN unitState ELSE storedUnit
  /\ storedRemember' = IF "remember" \in pending THEN BoolString(rememberLocation)
                       ELSE storedRemember
  /\ storedCoordinates' =
       IF "location" \in pending /\ pageCoordinates THEN TRUE
       ELSE IF "remember" \in pending /\ ~rememberLocation THEN FALSE
       ELSE storedCoordinates
  /\ pending' = {}
  /\ UNCHANGED <<prefPage, unitState, rememberLocation, pageCoordinates, chosen>>

(***************************************************************************)
(* Weather alerts of Settings: the weatherAlerts state, the effect that    *)
(* checks every minute whether an alert is due, and the handlers that      *)
(* change the state. Times are in minutes.                                 *)
(***************************************************************************)
\* Date.now() when Settings mounts (it is far above every interval).
StartTime == 1000

\* Minutes followed one by one after Settings has mounted.
MaxMinutes == 3

\* Minutes that Settings stays mounted.
MaxWait == 65

\* Two of the items of the alert-interval select.
AlertIntervals == {30, 60}

Permissions == {"default", "granted", "denied"}

WeatherAlerts(en, int, last) == [enabled |-> en, interval |-> int, lastAlertTime |-> last]

\* The notification shown last: when, the one before it, and the settings
\* and the permission at the moment it was created.
NoNotification ==
  [count |-> 0, at |-> 0, before |-> 0, interval |-> 0, enabled |-> FALSE, permission |-> "default"]

VARIABLES
  clock,                   \* Date.now()
  weatherAlerts,           \* lastAlertTime 0: undefined
  permission,              \* Notification.permission
  notificationPermission,  \* the state of Settings
  savedCoordinates,        \* 'fg-weather-coordinates' is set
  alertsMounted,           \* the mount effects have run
  alertRequest,            \* the weather request of checkAndSendNotification is in flight
  notified                 \* the 'Weather Update' notification created last

alertVars ==
  <<clock, weatherAlerts, permission, notificationPermission, savedCoordinates, alertsMounted,
    alertRequest, notified>>

AlertInit ==
  /\ clock = StartTime
  /\ weatherAlerts \in {WeatherAlerts(en, 60, 0) : en \in BOOLEAN}
  /\ permission \in Permissions
  /\ notificationPermission = "default"
  /\ savedCoordinates \in BOOLEAN
  /\ alertsMounted = FALSE
  /\ alertRequest = FALSE
  /\ notified = NoNotification

AlertRest ==
  /\ clock = StartTime
  /\ weatherAlerts = WeatherAlerts(FALSE, 60, 0)
  /\ permission = "default"
  /\ notificationPermission = "default"
  /\ savedCoordinates = FALSE
  /\ alertsMounted = FALSE
  /\ alertRequest = FALSE
  /\ notified = NoNotification

\* checkAndSendNotification up to its await: an alert is due.
IsDue(w, t) ==
  /\ w.enabled
  /\ permission = "granted"
  /\ t - w.lastAlertTime >= w.interval

\* The alert effect runs with the state w: checkAndSendNotification marks
\* the alert as sent and, with coordinates saved, requests the weather.
RunAlertEffect(w) ==
  IF IsDue(w, clock)
    THEN /\ weatherAlerts' = [w EXCEPT !.lastAlertTime = clock]
         /\ alertRequest' = (alertRequest \/ savedCoordinates)
    ELSE /\ weatherAlerts' = w
         /\ UNCHANGED alertRequest

\* The mount effects of Settings: the permission check, then the alert effect.
AlertsMount ==
  /\ ~alertsMounted
  /\ alertsMounted' = TRUE
  /\ notificationPermission' = permission
  /\ RunAlertEffect(IF permission = "denied"
                      THEN [weatherAlerts EXCEPT !.enabled = FALSE] ELSE weatherAlerts)
  /\ UNCHANGED <<clock, permission, savedCoordinates, notified>>

\* A minute passes and the interval timer of the effect fires. A weather
\* request does not take a minute.
MinutePasses ==
  /\ alertsMounted
  /\ ~alertRequest
  /\ clock < StartTime + MaxMinutes
  /\ clock' = clock + 1
  /\ IF IsDue(weatherAlerts, clock')
       THEN /\ weatherAlerts' = [weatherAlerts EXCEPT !.lastAlertTime = clock']
            /\ alertRequest' = savedCoordinates
       ELSE UNCHANGED <<weatherAlerts, alertRequest>>
  /\ UNCHANGED <<permission, notificationPermission, savedCoordinates, alertsMounted, notified>>

\* A wait too long to follow minute by minute: the minutes until the next
\* alert is due pass with nothing else happening; the timer fires every
\* minute and finds nothing due until the last one.
IntervalPasses ==
  /\ alertsMounted
  /\ ~alertRequest
  /\ weatherAlerts.enabled
  /\ permission = "granted"
  /\ LET due == weatherAlerts.lastAlertTime + weatherAlerts.interval
     IN  /\ due - clock > MaxMinutes
         /\ due <= StartTime + MaxWait
         /\ clock' = due
         /\ weatherAlerts' = [weatherAlerts EXCEPT !.lastAlertTime = due]
         /\ alertRequest' = savedCoordinates
  /\ UNCHANGED <<permission, notificationPermission, savedCoordinates, alertsMounted, notified>>

\* handleToggleWeatherAlerts; granted is what requestPermission answers when
\* the permission is not granted yet.
handleToggleWeatherAlerts(granted) ==
  /\ alertsMounted
  /\ notificationPermission # "denied"
  /\ IF weatherAlerts.enabled
       THEN /\ RunAlertEffect([weatherAlerts EXCEPT !.enabled = FALSE])
            /\ UNCHANGED <<permission, notificationPermission>>
       ELSE /\ permission' = IF permission = "granted" THEN permission ELSE granted
            /\ notificationPermission' =
                 IF permission = "granted" THEN notificationPermission ELSE granted
            /\ IF permission' = "granted"
                 THEN \* due a minute from now, so the effect finds nothing due
                      /\ weatherAlerts' =
                           [weatherAlerts EXCEPT !.enabled = TRUE,
                                                 !.lastAlertTime = clock - weatherAlerts.interval + 1]
                      /\ UNCHANGED alertRequest
                 ELSE UNCHANGED <<weatherAlerts, alertRequest>>
  /\ UNCHANGED <<clock, savedCoordinates, alertsMounted, notified>>

\* handleAlertIntervalChange: due two minutes from now.
handleAlertIntervalChange(i) ==
  /\ alertsMounted
  /\ weatherAlerts.enabled
  /\ i # weatherAlerts.interval
  /\ weatherAlerts' = [weatherAlerts EXCEPT !.interval = i, !.lastAlertTime = clock - i + 2]
  /\ UNCHANGED <<clock, permission, notificationPermission, savedCoordinates, alertsMounted,
                 alertRequest, notified>>

\* handleUnitChange: unit is a dependency of the alert effect.
handleUnitChange ==
  /\ alertsMounted
  /\ RunAlertEffect(weatherAlerts)
  /\ UNCHANGED <<clock, permission, notificationPermission, savedCoordinates, alertsMounted,
                 notified>>

\* resetSettings: setWeatherAlerts({ enabled: false, interval: 60 }).
resetSettings ==
  /\ alertsMounted
  /\ weatherAlerts' = WeatherAlerts(FALSE, 60, 0)
  /\ UNCHANGED <<clock, permission, notificationPermission, savedCoordinates, alertsMounted,
                 alertRequest, notified>>

\* The user changes the permission of the site in the browser.
PermissionChanges(p) ==
  /\ alertsMounted
  /\ p # permission
  /\ permission' = p
  /\ UNCHANGED <<clock, weatherAlerts, notificationPermission, savedCoordinates, alertsMounted,
                 alertRequest, notified>>

\* checkAndSendNotification after its await: new Notification('Weather
\* Update', ...) or the catch.
AlertRequestSettles(ok) ==
  /\ alertRequest
  /\ alertRequest' = FALSE
  /\ notified' = IF ok
                   THEN [count |-> IF notified.count < 2 THEN notified.count + 1 ELSE 2,
                         at |-> clock, before |-> notified.at,
                         interval |-> weatherAlerts.interval,
                         enabled |-> weatherAlerts.enabled, permission |-> permission]
                   ELSE notified
  /\ UNCHANGED <<clock, weatherAlerts, permission, notificationPermission, savedCoordinates,
                 alertsMounted>>

\* The layers added last, for the specifications of the other layers.
extraVars == <<prefVars, alertVars>>

ExtraRest == PrefRest /\ AlertRest

(***************************************************************************)
(* Specifications: one per layer; the variables of the other layers rest.  *)
(***************************************************************************)
vars ==
  <<queryVars, fetchVars, classifyVars, hoursVars, overlayVars, detectVars, searchVars, airVars, extraVars>>

QueryRest ==
  /\ page = "index"
  /\ coordinates = None
  /\ unit = "celsius"
  /\ mapType = None
  /\ queries = EmptyCache("index")
  /\ net = EmptyNet("index")
  /\ lastSettled = NotSettled
  /\ fetches = 0

InitQuery ==
  /\ QueryInit /\ FetchInit /\ ClassifyRest /\ HoursRest /\ OverlayInit /\ DetectRest /\ SearchInit
  /\ AirRest
  /\ ExtraRest

notQueryVars ==
  <<fetchVars, classifyVars, hoursVars, overlayVars, detectVars, searchVars, airVars, extraVars>>

QueryNext ==
  \/ \E l \in Locs : SelectLocation(l) /\ UNCHANGED notQueryVars
  \/ \E u \in Units : SetUnit(u) /\ UNCHANGED notQueryVars
  \/ \E m \in QueryMapTypes : SetMapType(m) /\ UNCHANGED notQueryVars
  \/ \E k \in Keys(page) : NetSucceed(k) /\ UNCHANGED notQueryVars
  \/ \E k \in Keys(page) : NetFail(k) /\ UNCHANGED notQueryVars
  \/ \E k \in Keys(page) : DropCancelled(k) /\ UNCHANGED notQueryVars
  \/ \E k \in Keys(page) : Expire(k) /\ UNCHANGED notQueryVars
  \/ Refetch /\ UNCHANGED notQueryVars
  \/ Remount /\ UNCHANGED notQueryVars

SpecQuery == InitQuery /\ [][QueryNext]_vars

InitFetch ==
  /\ FetchInit /\ QueryRest /\ ClassifyRest /\ HoursRest /\ OverlayInit /\ DetectRest /\ SearchInit
  /\ AirRest
  /\ ExtraRest

notFetchVars ==
  <<queryVars, classifyVars, hoursVars, overlayVars, detectVars, searchVars, airVars, extraVars>>

FetchNext ==
  \/ \E l \in Locs, u \in Units : CallWeather(l, u) /\ UNCHANGED notFetchVars
  \/ \E l \in Locs : CallAirQuality(l) /\ UNCHANGED notFetchVars
  \/ \E r \in Responses : Respond(r) /\ UNCHANGED notFetchVars

SpecFetch == InitFetch /\ [][FetchNext]_vars

InitClassify ==
  /\ ClassifyInit /\ QueryRest /\ FetchInit /\ HoursRest /\ OverlayInit /\ DetectRest /\ SearchInit
  /\ AirRest
  /\ ExtraRest

notClassifyVars ==
  <<queryVars, fetchVars, hoursVars, overlayVars, detectVars, searchVars, airVars, extraVars>>

ClassifyNext ==
  \/ Classify /\ UNCHANGED notClassifyVars
  \/ \E code \in WeatherCodes, day \in {0, 1} :
       NextSample(code, day) /\ UNCHANGED notClassifyVars

SpecClassify == InitClassify /\ [][ClassifyNext]_vars

InitHours ==
  /\ HoursInit /\ QueryRest /\ FetchInit /\ ClassifyRest /\ OverlayInit /\ DetectRest /\ SearchInit
  /\ AirRest
  /\ ExtraRest

notHoursVars ==
  <<queryVars, fetchVars, classifyVars, overlayVars, detectVars, searchVars, airVars, extraVars>>

HoursNext ==
  \/ SelectHours /\ UNCHANGED notHoursVars
  \/ Tick /\ UNCHANGED notHoursVars

SpecHours == InitHours /\ [][HoursNext]_vars

\* The map page has mounted: its query is in flight, the layer is empty.
InitOverlay ==
  /\ QueryInit
  /\ page = "map"
  /\ OverlayInit
  /\ FetchInit
  /\ ClassifyRest
  /\ HoursRest
  /\ DetectRest
  /\ SearchInit
  /\ AirRest
  /\ ExtraRest

notOverlayVars == <<fetchVars, classifyVars, hoursVars, detectVars, searchVars, airVars, extraVars>>

OverlayNext ==
  \/ \E l \in Locs, m \in MapTypes, u \in Units, c \in Samples \cup {NoSample} :
       WeatherEffect(l, m, u, c) /\ UNCHANGED notOverlayVars
  \/ GenerateStep /\ UNCHANGED notOverlayVars
  \/ \E rf \in RandomFactors, cluster \in ClusterDraws(mapType) :
       RenderStep(rf, cluster) /\ UNCHANGED notOverlayVars

SpecOverlay == InitOverlay /\ [][OverlayNext]_vars

InitDetect ==
  /\ DetectInit /\ QueryRest /\ FetchInit /\ ClassifyRest /\ HoursRest /\ OverlayInit
  /\ SearchInit
  /\ AirRest
  /\ ExtraRest

notDetectVars ==
  <<queryVars, fetchVars, classifyVars, hoursVars, overlayVars, searchVars, airVars, extraVars>>

DetectNext ==
  \/ MountEffect /\ UNCHANGED notDetectVars
  \/ \E p \in Positions : PositionSuccess(p) /\ UNCHANGED notDetectVars
  \/ PositionError /\ UNCHANGED notDetectVars
  \/ LocationUnavailable /\ UNCHANGED notDetectVars
  \/ \E r \in GeocodeResponses : GeocodeSettles(r) /\ UNCHANGED notDetectVars
  \/ \E l \in {London, KualaLumpur} : handleLocationChange(l) /\ UNCHANGED notDetectVars

SpecDetect == InitDetect /\ [][DetectNext]_vars

\* React runs the effects of a mounted page, a rejected promise runs its
\* catch, a fetch settles; the browser owes no answer to getCurrentPosition
\* (no timeout is passed) and the user owes no selection.
DetectFairness ==
  /\ WF_vars(MountEffect /\ UNCHANGED notDetectVars)
  /\ WF_vars(LocationUnavailable /\ UNCHANGED notDetectVars)
  /\ WF_vars(\E r \in GeocodeResponses : GeocodeSettles(r) /\ UNCHANGED notDetectVars)

SpecDetectLive == SpecDetect /\ DetectFairness

InitSearch ==
  /\ SearchInit /\ QueryRest /\ FetchInit /\ ClassifyRest /\ HoursRest /\ OverlayInit
  /\ DetectRest
  /\ AirRest
  /\ ExtraRest

notSearchVars ==
  <<queryVars, fetchVars, classifyVars, hoursVars, overlayVars, detectVars, airVars, extraVars>>

SearchNext ==
  \/ \E q \in SearchQueries : setQuery(q) /\ UNCHANGED notSearchVars
  \/ handleSearch /\ UNCHANGED notSearchVars
  \/ \E o \in SearchOutcomes : SearchSettles(o) /\ UNCHANGED notSearchVars
  \/ handleClearSearch /\ UNCHANGED notSearchVars
  \/ \E q \in SearchQueries : CallSearchLocation(q) /\ UNCHANGED notSearchVars

SpecSearch == InitSearch /\ [][SearchNext]_vars

InitAir ==
  /\ AirInit /\ QueryRest /\ FetchInit /\ ClassifyRest /\ HoursRest /\ OverlayInit
  /\ DetectRest
  /\ SearchInit
  /\ ExtraRest

notAirVars ==
  <<queryVars, fetchVars, classifyVars, hoursVars, overlayVars, detectVars, searchVars, extraVars>>

AirNext ==
  \/ RenderAirQuality /\ UNCHANGED notAirVars
  \/ \E aqi \in AqiValues : NewReading(aqi) /\ UNCHANGED notAirVars

SpecAir == InitAir /\ [][AirNext]_vars

InitPref ==
  /\ PrefInit /\ QueryRest /\ FetchInit /\ ClassifyRest /\ HoursRest /\ OverlayInit
  /\ DetectRest
  /\ SearchInit
  /\ AirRest
  /\ AlertRest

notPrefVars ==
  <<queryVars, fetchVars, classifyVars, hoursVars, overlayVars, detectVars, searchVars, airVars,
    alertVars>>

PrefNext ==
  \/ \E p \in PrefPages : MountPage(p) /\ UNCHANGED notPrefVars
  \/ \E u \in Units : ChooseUnit(u) /\ UNCHANGED notPrefVars
  \/ ToggleRememberLocation /\ UNCHANGED notPrefVars
  \/ ResetSettings /\ UNCHANGED notPrefVars
  \/ handleSelectLocation /\ UNCHANGED notPrefVars
  \/ SaveDetectedLocation /\ UNCHANGED notPrefVars
  \/ RunEffects /\ UNCHANGED notPrefVars

SpecPref == InitPref /\ [][PrefNext]_vars

InitAlerts ==
  /\ AlertInit /\ QueryRest /\ FetchInit /\ ClassifyRest /\ HoursRest /\ OverlayInit
  /\ DetectRest
  /\ SearchInit
  /\ AirRest
  /\ PrefRest

notAlertVars ==
  <<queryVars, fetchVars, classifyVars, hoursVars, overlayVars, detectVars, searchVars, airVars,
    prefVars>>

AlertsNext ==
  \/ AlertsMount /\ UNCHANGED notAlertVars
  \/ MinutePasses /\ UNCHANGED notAlertVars
  \/ IntervalPasses /\ UNCHANGED notAlertVars
  \/ \E g \in Permissions : handleToggleWeatherAlerts(g) /\ UNCHANGED notAlertVars
  \/ \E i \in AlertIntervals : handleAlertIntervalChange(i) /\ UNCHANGED notAlertVars
  \/ handleUnitChange /\ UNCHANGED notAlertVars
  \/ resetSettings /\ UNCHANGED notAlertVars
  \/ \E p \in Permissions : PermissionChanges(p) /\ UNCHANGED notAlertVars
  \/ \E ok \in BOOLEAN : AlertRequestSettles(ok) /\ UNCHANGED notAlertVars

SpecAlerts == InitAlerts /\ [][AlertsNext]_vars

(***************************************************************************)
(* Claims about the query layer.                                           *)
(***************************************************************************)
\* weatherData of the Index page: the data of the observed query.
Displayed == IF coordinates = None THEN NoData ELSE queries[CurKey].data

\* Network calls for key k that have been issued and have not returned.
InFlight(k) == net[k].live + net[k].dead

\* Attempts of the current (or last) fetch of key k.
Attempts(k) == queries[k].failureCount + net[k].live

\* C1: on the Index page the displayed weatherData, if any, was fetched for
\* the currently selected (latitude, longitude, unit); the response of a fetch
\* for a previous key never becomes the displayed data.
C1_DisplayedMatchesSelection ==
  (page \in IndexPages /\ Displayed # NoData)
    => (Displayed.loc = coordinates /\ Displayed.unit = unit)

\* C1 witness: a successful response for a key that is no longer selected was
\* handled, and the page displays data.
C1_Witness ==
  /\ page \in IndexPages
  /\ lastSettled = "other"
  /\ Displayed # NoData
  /\ \E k \in Keys(page) : k # CurKey /\ queries[k].data # NoData

\* C4 (as claimed): fetch requests for one key that are issued before the
\* first one resolved result in exactly one network call: at no time are two
\* network calls for the same weather key in flight.
C4_OneCallPerKey ==
  page \in IndexPages => \A k \in Keys(page) : InFlight(k) <= 1

\* C5 (as claimed): for the weather map, no network request for a location is
\* issued while the cache holds a result for that location fetched within the
\* stale window.
C5_NoCallWithinStaleWindow ==
  page = "map" => \A k \in Keys(page) : net[k].live > 0 => net[k].issued # "fresh"

\* C6: a fetch makes at most retry + 1 <= 3 attempts (the weather query 3 or 2,
\* the air-quality query 3, the map query 2); when the last one has failed the
\* query is in the error state and fetches no more.
C6_BoundedAttempts ==
  \A k \in Keys(page) :
    /\ Attempts(k) <= Retry(page) + 1
    /\ Attempts(k) <= 3
    /\ queries[k].failureCount = Retry(page) + 1
         => (queries[k].status = "error" /\ ~queries[k].fetching /\ net[k].live = 0)
    /\ (queries[k].failureCount > 0 /\ ~queries[k].fetching) => queries[k].status = "error"

\* C6 witness: a query has failed three times and is in the error state.
C6_Witness ==
  \E k \in Keys(page) :
    /\ queries[k].failureCount = 3
    /\ queries[k].status = "error"
    /\ ~queries[k].fetching

(***************************************************************************)
(* Claims about the data clients.                                          *)
(***************************************************************************)
\* C2: one call of fetchWeatherByCoordinates or of fetchAirQualityData issues
\* exactly one network request and ends either returning the data mapped from
\* a 2xx response or failing with the fixed message; after a transport failure
\* or a non-2xx response it has failed.
C2_OneRequestOneOutcome ==
  /\ Len(sent) = (IF fn = None THEN 0 ELSE 1)
  /\ outcome.kind \in {"none", "returned", "threw"}
  /\ outcome.kind = "threw" =>
       /\ fn = "fetchWeatherByCoordinates"
            => outcome.message = "Failed to fetch weather data. Please try again."
       /\ fn = "fetchAirQualityData"
            => outcome.message = "Failed to fetch air quality data. Please try again later."
  /\ outcome.kind = "returned" =>
       /\ response.kind = "http" /\ response.status = 200
       /\ fn = "fetchWeatherByCoordinates" =>
            /\ outcome.weather.hourly.time = response.body.hourly.time
            /\ outcome.weather.hourly.temperature = response.body.hourly.temperature_2m
            /\ outcome.weather.daily.time = response.body.daily.time
            /\ outcome.weather.daily.weatherCode = response.body.daily.weather_code
       /\ fn = "fetchAirQualityData" => outcome.raw = response.body
  /\ (response.kind = "transport" \/ (response.kind = "http" /\ response.status # 200))
       => outcome.kind = "threw"

\* C2 witness: a call has met a non-2xx response and has failed after its one request.
C2_Witness ==
  /\ response.kind = "http"
  /\ response.status = 500
  /\ outcome.kind = "threw"
  /\ Len(sent) = 1

\* A forecast object whose arrays are all present and of one length.
SameLength(a, b) == a.defined /\ b.defined /\ a.len = b.len

\* C3 (as claimed): fetchWeatherByCoordinates never returns a WeatherData whose
\* hourly arrays, or whose daily arrays, differ in length or are missing.
C3_ShapeErrorsReject ==
  (fn = "fetchWeatherByCoordinates" /\ outcome.kind = "returned") =>
    /\ SameLength(outcome.weather.hourly.time, outcome.weather.hourly.temperature)
    /\ SameLength(outcome.weather.daily.time, outcome.weather.daily.weatherCode)

IncreasingInBounds(idx, ts) ==
  /\ \A x \in 1..Len(idx) : 0 <= idx[x] /\ idx[x] < Len(ts)
  /\ \A x \in 1..(Len(idx) - 1) : idx[x] < idx[x + 1]

\* The result is the first count of the indices in S, in order.
FirstOf(idx, S, count) ==
  /\ Len(idx) = (IF count < Cardinality(S) THEN count ELSE Cardinality(S))
  /\ \A x \in 1..Len(idx) :
       /\ idx[x] \in S
       /\ Cardinality({y \in S : y < idx[x]}) = x - 1

\* C8 (as claimed): getNextNHours returns strictly increasing in-bounds indices:
\* the first n samples at or after now, or all of them when fewer than n remain
\* (none when none remains).
C8_NextHoursFromNow ==
  selected =>
    /\ IncreasingInBounds(hourIndices, time)
    /\ FirstOf(hourIndices, FutureIndices(time, now), n)

\* C8 (amended): getNextNHours returns strictly increasing in-bounds indices:
\* the first n samples at or after now, or all of them when fewer than n remain;
\* when no sample is at or after now and n >= 1, the last sample alone.
C8_NextHoursOrLast ==
  selected =>
    /\ IncreasingInBounds(hourIndices, time)
    /\ Len(hourIndices) <= n
    /\ FutureIndices(time, now) # {}
         => FirstOf(hourIndices, FutureIndices(time, now), n)
    /\ (FutureIndices(time, now) = {} /\ Len(time) > 0 /\ n >= 1)
         => hourIndices = <<Len(time) - 1>>
    /\ (Len(time) = 0 \/ n = 0) => hourIndices = <<>>

\* C8 witness: fewer than n samples are left, and all of them are returned.
C8_Witness ==
  /\ selected
  /\ Len(hourIndices) >= 2
  /\ Len(hourIndices) < n
  /\ hourIndices[Len(hourIndices)] = Len(time) - 1

(***************************************************************************)
(* Claims about the overlay of the weather map.                            *)
(***************************************************************************)
\* The offsets (i, j) of the points generated so far.
Offsets == {<<points[x].i, points[x].j>> : x \in 1..Len(points)}

\* C9: when the grid loops have ended, points holds exactly the offsets (i, j)
\* with -10 <= i, j <= 10 and i*i + j*j <= 100, each once, and no point lies
\* further than 2 degrees (20 tenths) from the center, in latitude, in longitude
\* and in the plane of the two offsets.
C9_GridIsDisc ==
  /\ Cardinality(Offsets) = Len(points)
  /\ \A x \in 1..Len(points) :
       /\ points[x].lat * points[x].lat + points[x].lon * points[x].lon <= 20 * 20
       /\ points[x].lat <= 20 /\ points[x].lat >= 0 - 20
       /\ points[x].lon <= 20 /\ points[x].lon >= 0 - 20
       /\ points[x].lat = 2 * points[x].i
       /\ points[x].lon = 2 * points[x].j
  /\ (phase = "render" \/ (phase = "done" /\ current # NoSample))
       => Offsets = {o \in ((0 - 10)..10) \X ((0 - 10)..10) : o[1] * o[1] + o[2] * o[2] <= 100}

\* C9 witness: the loops have ended and the point at offset (10, 0), on the
\* rim of the disc, has been generated.
C9_Witness ==
  /\ phase = "render"
  /\ <<10, 0>> \in Offsets
  /\ <<0, 0 - 10>> \in Offsets

\* The point handled last lies in a skipped tier: precipitation 0, clouds below 10.
InSkippedTier ==
  \/ mapType = "precipitation" /\ lastPoint.value = 0
  \/ mapType = "clouds" /\ lastPoint.value < 10 * ValueScale

\* C10: a precipitation point of value 0 and a cloud point of value below 10
\* get no circle, every other point gets exactly one, which is in the layer;
\* when the fetched precipitation is 0 or missing, the precipitation overlay
\* holds no circle.
C10_SkippedTiersDrawNothing ==
  (phase \in {"render", "done"} /\ current # NoSample) =>
    /\ rendered > 0 =>
         /\ InSkippedTier => ~lastPoint.circle.drawn
         /\ ~InSkippedTier => (lastPoint.circle.drawn /\ layerCount >= 1)
    /\ (mapType = "precipitation"
          /\ ("precipitation" \in current.missing \/ current.precipitation = 0))
         => layerCount = 0

\* C10 witness: the precipitation overlay has been rendered to the end for a
\* sample without precipitation, and the layer is empty.
C10_Witness ==
  /\ phase = "done"
  /\ current # NoSample
  /\ mapType = "precipitation"
  /\ rendered = Len(points)
  /\ rendered > 0
  /\ lastPoint.value = 0
  /\ layerCount = 0

\* The unit that is not selected.
OtherUnit == IF unit = "celsius" THEN "fahrenheit" ELSE "celsius"

\* The value of the point handled last as the temperature tiers see it.
ShownTemperature ==
  IF unit = "fahrenheit"
    THEN (lastPoint.value * 9) \div 5 + 32 * ValueScale
    ELSE lastPoint.value

\* C11: on the temperature map the tier, the opacity and the radius of a point
\* are those of v*9/5 + 32 when the unit is fahrenheit and of v when it is
\* celsius (one conversion, before the thresholds and the radius); on the
\* precipitation, cloud and wind maps the circle of a point is the same under
\* either unit.
C11_ConvertedOnceBeforeTiers ==
  (phase \in {"render", "done"} /\ current # NoSample /\ rendered > 0) =>
    /\ mapType = "temp" =>
         LET t == ShownTemperature
             c == lastPoint.circle
         IN  /\ c.drawn
             /\ c.radius = 20000 * ValueScale + t * 500
             /\ t < 0 => (c.fillColor = "rgb(0, 50, 200)" /\ c.fillOpacity = 60)
             /\ (0 <= t /\ t < 10 * ValueScale)
                  => (c.fillColor = "rgb(30, 100, 255)" /\ c.fillOpacity = 60)
             /\ (10 * ValueScale <= t /\ t < 20 * ValueScale)
                  => (c.fillColor = "rgb(50, 150, 255)" /\ c.fillOpacity = 50)
             /\ (20 * ValueScale <= t /\ t < 25 * ValueScale)
                  => (c.fillColor = "rgb(100, 200, 50)" /\ c.fillOpacity = 50)
             /\ (25 * ValueScale <= t /\ t < 30 * ValueScale)
                  => (c.fillColor = "rgb(255, 200, 0)" /\ c.fillOpacity = 60)
             /\ (30 * ValueScale <= t /\ t < 35 * ValueScale)
                  => (c.fillColor = "rgb(255, 100, 0)" /\ c.fillOpacity = 70)
             /\ 35 * ValueScale <= t => (c.fillColor = "rgb(200, 0, 0)" /\ c.fillOpacity = 70)
    /\ mapType # "temp" =>
         lastPoint.circle = RenderPoint(mapType, OtherUnit, lastPoint.value)

\* C11 witness: a point of the temperature map with a value between 20 and 25
\* degrees Celsius has been rendered under fahrenheit, in the highest tier.
C11_Witness ==
  /\ phase = "render"
  /\ mapType = "temp"
  /\ unit = "fahrenheit"
  /\ rendered > 0
  /\ lastPoint.value >= 20 * ValueScale
  /\ lastPoint.value < 25 * ValueScale
  /\ lastPoint.circle.fillColor = "rgb(200, 0, 0)"

\* C30: on the temperature map the colour and the opacity of a point are
\* those its Celsius value gets under celsius, whatever the display unit.
C30_TierIndependentOfUnit ==
  (phase \in {"render", "done"} /\ current # NoSample /\ rendered > 0 /\ mapType = "temp") =>
    LET c == TempCircle("celsius", lastPoint.value)
    IN  /\ lastPoint.circle.fillColor = c.fillColor
        /\ lastPoint.circle.fillOpacity = c.fillOpacity

\* C12 (as claimed): whenever the map has no current weather sample for the
\* selected location (its query is loading or has failed), the weather layer
\* holds no circles.
C12_NoSampleNoCircles ==
  (phase = "done" /\ current = NoSample) => layerCount = 0

(***************************************************************************)
(* Claims about the location detection.                                    *)
(***************************************************************************)
\* The failing outcomes of the reverse-geocoding request: no response, a
\* non-2xx response, a body that does not parse, no result in the body.
GeocodingFails(r) ==
  \/ ~r.arrives
  \/ ~r.ok
  \/ ~r.parses
  \/ ~r.hasResults
  \/ r.results = <<>>

\* C13: on the map page and on the air-quality page, when the
\* reverse-geocoding request of the detection ends in a failure (no
\* response, a non-2xx response, an unparsable body, no result), the step
\* that handles it sets the location to the detected coordinates with
\* isCurrentLocation true and the name "Location (<lat>, <lon>)" of the
\* coordinates to 4 decimals, and leaves the page without an error.
C13_GeocodingFailureFallsBack ==
  [][(/\ mounted \in {"map", "airQuality"}
      /\ detection = "geocoding"
      /\ detection' = "found"
      /\ GeocodingFails(geocoded'))
       => /\ location' = Location(position.lat, position.lon, CoordinateName(position), TRUE)
          /\ location'.name.lat = toFixed4(position.lat)
          /\ location'.name.lon = toFixed4(position.lon)
          /\ error' = None]_vars

C13_Witness ==
  /\ mounted = "airQuality"
  /\ detection = "found"
  /\ geocoded.arrives /\ ~geocoded.ok /\ geocoded.results # <<>>
  /\ position.lat = -3386885
  /\ location = Location(-3386885, 15120929, CoordinateName(position), TRUE)
  /\ location.name.lat = -338689
  /\ location.name.lon = 1512093

\* The positioning capability is absent, or the position request has failed.
PositioningFailed ==
  \/ detection # "unstarted" /\ ~geolocation
  \/ detection \in {"rejected", "unavailable"}

\* C14: on a page that detects the location on mount, once the positioning
\* capability is found absent or the position request has failed, the page
\* eventually is not loading and has a location selected (the default or
\* the remembered one).
C14_UnavailableFallsBackToDefault ==
  PositioningFailed ~> (~isLoading /\ location.hasCoordinates)

C25_ListIsOfLatestSearch ==
  showResults => shownFor = "latest"

(***************************************************************************)
(* Claims about the air-quality classification.                            *)
(***************************************************************************)
\* The place of a level among the five ordinal tiers.
LevelRank(l) == CHOOSE i \in 1..5 : <<"1", "2", "3", "4", "5">>[i] = l

\* C16: getAirQualityLevel of air-quality-api gives every AQI value the one
\* tier of the thresholds 20/40/60/80 (<= 20 "1", 21..40 "2", 41..60 "3",
\* 61..80 "4", above 80 "5"), a key of airQualityLevels; a reading not
\* below the previous one gets a level not below the previous one's; 45
\* gets "3".
C16_LevelFollowsThresholds ==
  aqiLevel # None =>
    /\ aqiLevel \in airQualityLevels
    /\ aqiLevel = "1" <=> currentAQI <= 20
    /\ aqiLevel = "2" <=> currentAQI \in 21..40
    /\ aqiLevel = "3" <=> currentAQI \in 41..60
    /\ aqiLevel = "4" <=> currentAQI \in 61..80
    /\ aqiLevel = "5" <=> currentAQI > 80
    /\ currentAQI = 45 => aqiLevel = "3"
    /\ (previous.assessed /\ previous.aqi <= currentAQI)
         => LevelRank(previous.level) <= LevelRank(aqiLevel)

C16_Witness ==
  /\ currentAQI = 45
  /\ aqiLevel = "3"
  /\ previous.assessed
  /\ previous.aqi = 40
  /\ previous.level = "2"

\* C17: for every AQI value the level of the air-quality page's own
\* getAirQualityLevel equals the level of getAirQualityLevel of
\* air-quality-api.
C17_OneThresholdTable ==
  aqiLevel # None => pageAqiLevel = aqiLevel

\* C18: two AQI values that getAirQualityLevel places in the same level get
\* the same ventilation, outdoor and sensitive advice from
\* getHealthRecommendations.
C18_AdviceByLevelOnly ==
  (aqiLevel # None /\ previous.assessed /\ previous.level = aqiLevel)
    => recommendations = previous.recommendations

(***************************************************************************)
(* Claims about units and rendering of the pages.                          *)
(***************************************************************************)
\* The label next to a temperature: unit === 'celsius' ? 'C' : 'F'.
UnitLabel(u) == IF u = "celsius" THEN "C" ELSE "F"

\* C19: a temperature shown with a unit label, on the Index page or in the
\* current-weather box of the map, comes from a request that asked the
\* server for the unit of the label.
C19_LabelledUnitWasRequested ==
  (page \in IndexPages \cup {"map"} /\ Displayed # NoData)
    => UnitLabel(unit) = UnitLabel(Displayed.unit)

\* isLoading and isError of the Index page's useQuery.
queryIsLoading ==
  coordinates # None /\ queries[CurKey].status = "pending" /\ queries[CurKey].fetching

queryIsError == coordinates # None /\ queries[CurKey].status = "error"

\* What the Index page renders inside its main element.
LoadingScreen == queryIsLoading /\ Displayed = NoData

ErrorDisplay == queryIsError

WeatherContent == Displayed # NoData

\* C20: the Index page renders at most one of the loading screen, the error
\* display and the weather content, also after a refetch of loaded data
\* has failed.
C20_NeverAMixture ==
  page \in IndexPages =>
    /\ ~(LoadingScreen /\ ErrorDisplay)
    /\ ~(LoadingScreen /\ WeatherContent)
    /\ ~(ErrorDisplay /\ WeatherContent)

(***************************************************************************)
(* Claims about a manual selection and about the saved location.           *)
(***************************************************************************)
\* C23: on the air-quality page, once the user has selected a location, the
\* location shown is that selection; a detection started earlier does not
\* replace it.
C23_SelectionIsKept ==
  (mounted = "airQuality" /\ selection.hasCoordinates) => location = selection

\* The stored name is the name of the stored coordinates (a name made of
\* coordinates names the stored ones).
NameDescribes(s) ==
  s.name.format = "Location (lat, lon)"
    => (s.name.lat = toFixed4(s.lat) /\ s.name.lon = toFixed4(s.lon))

\* The stored flag is set when the stored coordinates are the position that
\* was detected.
FlagDescribes(s, p) ==
  (p # NoPosition /\ s.lat = p.lat /\ s.lon = p.lon) => s.isCurrent

\* C27: on the map page and the air-quality page, the saved coordinates, the
\* saved name and the is-current-location flag describe one location.
C27_SavedLocationIsOneLocation ==
  (mounted \in {"map", "airQuality"} /\ storage.saved)
    => (NameDescribes(storage) /\ FlagDescribes(storage, position))

\* C28: the air-quality page that has restored a remembered location flagged
\* as the current location has no geolocation request under way.
C28_NoRequestWhenCurrentRestored ==
  ~(/\ mounted = "airQuality"
    /\ storage.remember /\ storage.saved /\ storage.isCurrent
    /\ selection = NoLocation
    /\ location = SavedLocation(storage)
    /\ detection = "positioning")

C22_StoredUnitIsLastChosen ==
  (prefPage # None /\ pending = {} /\ chosen # None)
    => (storedUnit = chosen /\ unitState = chosen)

\* C26: whenever the remember-location preference is off (and no effect is
\* due), the store holds no saved coordinates and no saved location name.
C26_NothingSavedWhileOff ==
  (pending = {} /\ storedRemember # "true") => ~storedCoordinates

(***************************************************************************)
(* Claims about the weather alerts.                                        *)
(***************************************************************************)
\* C24: a 'Weather Update' notification is created only while weather alerts
\* are enabled and the notification permission is granted.
C24_NotifiedOnlyWhenEnabledAndGranted ==
  notified.count > 0 => (notified.enabled /\ notified.permission = "granted")

\* C29: two consecutive 'Weather Update' notifications are at least the alert
\* interval apart that is configured when the later one is created.
C29_NotificationsAnIntervalApart ==
  notified.count >= 2 => notified.at - notified.before >= notified.interval

====
